---- MODULE Spec2Model ----
(***************************************************************************)
(* Model of src/lambda_function.py: the daily AWS cost report Lambda.      *)
(*   get_cost_data -> format_cost_message -> notify_slack, wrapped by      *)
(*   lambda_handler's catch-all error path.                                *)
(*                                                                         *)
(* Conventions                                                             *)
(*  - Money is counted in mills (1/1000 USD), so 0.004 and 0.01 are both   *)
(*    representable.  The billing API returns amounts as decimal strings;  *)
(*    a decimal string is the record [whole, frac] (frac = digit tuple),   *)
(*    float() parses it and Fmt2 prints two decimals.  All amounts used    *)
(*    are an even number of mills, so no sum ever sits on a half-cent tie  *)
(*    (where the binary float's rounding direction is representation-      *)
(*    dependent).                                                          *)
(*  - Text that is not ASCII is written as its tuple of Unicode code       *)
(*    points.                                                              *)
(*  - The clock counts ticks; the calendar date is ticks \div TicksPerDay.  *)
(***************************************************************************)
EXTENDS Integers, Sequences, FiniteSets, TLC

VARIABLES
    pc,             \* position of the running invocation / call
    now,            \* the wall clock (ticks)
    ticks,          \* how often the clock advanced during the run
    env,            \* TRUE iff SLACK_WEBHOOK_URL is in os.environ
    end_date,       \* get_cost_data local (line 15)
    start_date,     \* get_cost_data local (line 16)
    fc_start,       \* forecast TimePeriod Start (line 36)
    fc_end,         \* forecast TimePeriod End (line 37)
    queries,        \* billing API requests issued so far, in order
    response,       \* get_cost_data local (line 20)
    cost_data,      \* value returned by get_cost_data
    message,        \* argument of the running / next notify_slack call
    call,           \* which notify_slack call runs: none/primary/secondary/direct
    retry_count,    \* notify_slack parameter
    attempt,        \* notify_slack loop variable
    events,         \* trace of notify_slack calls, POSTs (with outcome) and sleeps
    error_message,  \* lambda_handler local (line 163)
    result          \* what the handler / the direct call returned or raised

clockVars  == <<now, ticks>>
fetchVars  == <<end_date, start_date, fc_start, fc_end, queries, response, cost_data>>
notifyVars == <<call, retry_count, attempt, events>>
ctlVars    == <<pc, message, error_message, result>>
vars == <<pc, now, ticks, env, end_date, start_date, fc_start, fc_end, queries,
          response, cost_data, message, call, retry_count, attempt, events,
          error_message, result>>

None == [none |-> TRUE]

(***************************************************************************)
(* Bounds of the model                                                     *)
(***************************************************************************)
MaxTicks == 2        \* clock advances observed during one invocation
TicksPerDay == 2     \* clock resolution
MaxRetry == 3        \* largest retry_count tried on a direct notify_slack call
MaxPrefix == 3       \* freely chosen leading groups of a formatter input
MaxTail == 9         \* further groups (ascending amounts) of a formatter input

(***************************************************************************)
(* Program constants                                                       *)
(***************************************************************************)
DefaultRetryCount == 3   \* def notify_slack(message, retry_count=3)
TopN == 10               \* service_costs[:10]
CentMills == 10          \* the literal 0.01 of "amount > 0.01", in mills
ForecastDays == 30       \* timedelta(days=30)

\* "データ不足", the text shown when the forecast is the "N/A" sentinel
DataFusoku == <<12487, 12540, 12479, 19981, 36275>>
\* "insufficient data"
InsufficientData ==
    <<105, 110, 115, 117, 102, 102, 105, 99, 105, 101, 110, 116, 32, 100, 97, 116, 97>>

(***************************************************************************)
(* Decimal strings, float() and the ":.2f" format                          *)
(***************************************************************************)
Dec(w, f) == [whole |-> w, frac |-> f]

\* float(s) for a decimal string with at most three fraction digits, in mills
float(s) ==
    LET d(i) == IF i <= Len(s.frac) THEN s.frac[i] ELSE 0
    IN  s.whole * 1000 + d(1) * 100 + d(2) * 10 + d(3)

\* f"{x:.2f}": round to the nearest cent, print two fraction digits
Fmt2(m) ==
    LET c == (m + 5) \div 10
    IN  Dec(c \div 100, <<(c % 100) \div 10, c % 10>>)

Dollar(m) == [sym |-> "$", num |-> Fmt2(m)]

(***************************************************************************)
(* Dates                                                                   *)
(***************************************************************************)
\* t.strftime('%Y-%m-%d'): the calendar date of instant t (a day number), time
\* of day dropped
Strftime(t) == [ymd |-> t \div TicksPerDay]

\* timedelta(days=n)
timedelta(n) == n * TicksPerDay

(***************************************************************************)
(* format_cost_message (lines 62-128)                                      *)
(***************************************************************************)
\* the sentinel amount "N/A" get_cost_data substitutes (line 47)
NA == [text |-> "N/A"]

Ok(v)    == [ok |-> TRUE, value |-> v]
Raise(e) == [ok |-> FALSE, exc |-> e]

\* lines 68-73: keep (service, amount) of every group with amount > 0.01
RECURSIVE FilterCosts(_)
FilterCosts(groups) ==
    IF groups = <<>> THEN <<>>
    ELSE LET group   == Head(groups)
             service == group.Keys[1]
             amount  == float(group.Amount)
         IN  IF amount > CentMills
             THEN <<<<service, amount>>>> \o FilterCosts(Tail(groups))
             ELSE FilterCosts(Tail(groups))

\* insert x behind every element whose amount is >= x's (keeps ties in order)
RECURSIVE InsertDesc(_, _)
InsertDesc(x, s) ==
    IF s = <<>> THEN <<x>>
    ELSE IF Head(s)[2] >= x[2]
         THEN <<Head(s)>> \o InsertDesc(x, Tail(s))
         ELSE <<x>> \o s

\* line 76: service_costs.sort(key=amount, reverse=True), a stable sort
RECURSIVE SortDesc(_)
SortDesc(s) ==
    IF s = <<>> THEN <<>>
    ELSE InsertDesc(s[Len(s)], SortDesc(SubSeq(s, 1, Len(s) - 1)))

\* line 100: sum(cost[1] for cost in service_costs)
RECURSIVE SumCosts(_)
SumCosts(s) == IF s = <<>> THEN 0 ELSE Head(s)[2] + SumCosts(Tail(s))

\* s[:n]
Take(s, n) == SubSeq(s, 1, IF Len(s) < n THEN Len(s) ELSE n)

\* line 115: the slice that is itemized
Itemized(service_costs) == Take(service_costs, TopN)

\* as DisplayedTotal, summing only the itemized slice
DisplayedTotalOfItemized(service_costs) == Dollar(SumCosts(Itemized(service_costs)))

\* line 100: f"${float(sum(cost[1] for cost in service_costs)):.2f}"
DisplayedTotal(service_costs) == Dollar(SumCosts(service_costs))

\* lines 79-83
ForecastDisplay(forecast_amount) ==
    IF forecast_amount = NA THEN [text |-> DataFusoku]
    ELSE Dollar(float(forecast_amount))

\* lines 114-116: one "• service: $amount" line per itemized service
ItemLines(service_costs) ==
    [i \in 1..Len(Itemized(service_costs)) |->
        [service |-> Itemized(service_costs)[i][1],
         amount  |-> Dollar(Itemized(service_costs)[i][2])]]

\* the whole function; today is the date datetime.now() yields at line 91
format_cost_message(cd, today) ==
    IF cd.daily_cost.ResultsByTime = <<>>
    THEN Raise([type |-> "IndexError"])                       \* line 64
    ELSE LET daily_costs   == cd.daily_cost.ResultsByTime[1]
             forecast      == cd.forecast
             service_costs == SortDesc(FilterCosts(daily_costs.Groups))
         IN  Ok([kind     |-> "report",
                 header   |-> today,
                 total    |-> DisplayedTotal(service_costs),
                 forecast |-> ForecastDisplay(forecast.Total.Amount),
                 items    |-> ItemLines(service_costs)])

(***************************************************************************)
(* Environment: what the billing API and the webhook may answer            *)
(***************************************************************************)
Group(name, amount) == [Keys |-> <<name>>, Amount |-> amount]

\* the spec's example: A=12.50, B=0.004, C=7.25
ExampleGroups ==
    <<Group("A", Dec(12, <<5, 0>>)), Group("B", Dec(0, <<0, 0, 4>>)),
      Group("C", Dec(7, <<2, 5>>))>>

\* get_cost_and_usage responses: the example, no usage at all, no time bucket
DailyResponses ==
    { [ResultsByTime |-> <<[Groups |-> ExampleGroups]>>],
      [ResultsByTime |-> <<[Groups |-> <<>>]>>],
      [ResultsByTime |-> <<>>] }

\* get_cost_forecast responses
ForecastResponses == { [Total |-> [Amount |-> Dec(42, <<5>>), Unit |-> "USD"]] }

\* botocore ClientError codes get_cost_forecast may fail with
ForecastErrorCodes == {"DataUnavailableException", "ThrottlingException"}

ClientError(code) == [type |-> "ClientError", code |-> code]

\* HTTP statuses the webhook may answer with, one per class
HttpStatuses == {100, 200, 301, 404, 500}

\* outcomes of requests.post: a response, or a transport-level exception
PostOutcomes ==
    [kind : {"response"}, status : HttpStatuses] \cup {[kind |-> "ConnectionError"]}

\* response.raise_for_status() raises HTTPError exactly for 4xx and 5xx
RaisesForStatus(status) == status >= 400 /\ status < 600

\* lines 136-139: does this attempt end in a RequestException?
AttemptFails(o) == o.kind # "response" \/ RaisesForStatus(o.status)

\* the exception such an attempt raises
AttemptException(o) ==
    IF o.kind = "response" THEN [type |-> "HTTPError", status |-> o.status]
    ELSE [type |-> o.kind]

(***************************************************************************)
(* lambda_handler's two exits and its except clause (lines 158-186)        *)
(***************************************************************************)
\* json.dumps of a str
JsonDumps(str) == [json |-> "string", of |-> str]

\* line 163: f"Error occurred: {str(e)}"
ErrorMessage(e) == [prefix |-> "Error occurred: ", str |-> e]

\* lines 168-178
ErrorNotification(msg) ==
    [kind |-> "error", title |-> "*AWS Cost Notification Error*", text |-> msg]

\* lines 158-161
SuccessResult ==
    [statusCode |-> 200, body |-> JsonDumps("Cost notification sent successfully!")]

\* a failure reported with the success status
FailureResultAs200(msg) == [statusCode |-> 200, body |-> JsonDumps(msg)]

\* lines 183-186
FailureResult(msg) == [statusCode |-> 500, body |-> JsonDumps(msg)]

CallEvent(c, m, rc) == [ev |-> "call", call |-> c, payload |-> m, retry_count |-> rc]
PostEvent(c, m, o)  == [ev |-> "POST", call |-> c, payload |-> m, outcome |-> o]
SleepEvent(c)       == [ev |-> "sleep", call |-> c]
ReturnEvent(c, v)   == [ev |-> "return", call |-> c, value |-> v]
RaiseEvent(c, e)    == [ev |-> "raise", call |-> c, exc |-> e]

\* notify_slack(m) is entered with the default retry_count
EnterNotify(c, m, evs) ==
    /\ pc' = "N132"
    /\ call' = c
    /\ message' = m
    /\ retry_count' = DefaultRetryCount
    /\ attempt' = 0
    /\ events' = Append(evs, CallEvent(c, m, DefaultRetryCount))

\* lines 162-179: an exception e reaches the handler's except clause
HandlerCatch(e, evs) ==
    /\ error_message' = ErrorMessage(e)
    /\ EnterNotify("secondary", ErrorNotification(ErrorMessage(e)), evs)
    /\ UNCHANGED result

\* the handler returns r
HandlerReturn(r, evs) ==
    /\ pc' = "done"
    /\ result' = r
    /\ events' = evs
    /\ call' = "none"
    /\ UNCHANGED <<message, retry_count, attempt, error_message>>

\* the running notify_slack call returns value v to its caller
NotifyReturns(v, evs) ==
    LET evr == Append(evs, ReturnEvent(call, v))
    IN  CASE call = "primary"   -> HandlerReturn(SuccessResult, evr)
          [] call = "secondary" -> HandlerReturn(FailureResult(error_message), evr)
          [] OTHER -> /\ pc' = "returned"
                      /\ result' = v
                      /\ events' = evr
                      /\ UNCHANGED <<call, message, retry_count, attempt, error_message>>

\* as NotifyRaises, but a failing error notification replaces the reported error
NotifyRaisesLastError(e, evs) ==
    LET evr == Append(evs, RaiseEvent(call, e))
    IN  CASE call = "primary"   -> HandlerCatch(e, evr)
          [] call = "secondary" -> HandlerReturn(FailureResult(ErrorMessage(e)), evr)
          [] OTHER -> /\ pc' = "raised"
                      /\ result' = e
                      /\ events' = evr
                      /\ UNCHANGED <<call, message, retry_count, attempt, error_message>>

\* the running notify_slack call raises e
NotifyRaises(e, evs) ==
    LET evr == Append(evs, RaiseEvent(call, e))
    IN  CASE call = "primary"   -> HandlerCatch(e, evr)
          \* lines 180-181: the bare except swallows it
          [] call = "secondary" -> HandlerReturn(FailureResult(error_message), evr)
          [] OTHER -> /\ pc' = "raised"
                      /\ result' = e
                      /\ events' = evr
                      /\ UNCHANGED <<call, message, retry_count, attempt, error_message>>

(***************************************************************************)
(* The clock                                                               *)
(***************************************************************************)
\* an invocation starts at the beginning of a day or on its last tick
InitialTimes == {timedelta(2), timedelta(3) - 1}

HandlerPcs == {"L15", "L16", "L20", "L36", "L37", "L34", "L153", "N132", "N136", "N144"}

\* time passes while the handler runs
Tick ==
    /\ pc \in HandlerPcs
    /\ call # "direct"
    /\ ticks < MaxTicks
    /\ now' = now + 1
    /\ ticks' = ticks + 1
    /\ UNCHANGED <<env, fetchVars, notifyVars, ctlVars>>

(***************************************************************************)
(* get_cost_data (lines 10-60)                                             *)
(***************************************************************************)
\* line 15: end_date = datetime.today().strftime('%Y-%m-%d')
ReadEndDate ==
    /\ pc = "L15"
    /\ end_date' = Strftime(now)
    /\ pc' = "L16"
    /\ UNCHANGED <<clockVars, env, start_date, fc_start, fc_end, queries, response,
                   cost_data, notifyVars, message, error_message, result>>

\* line 16: start_date = (datetime.today() - timedelta(days=1)).strftime(...)
ReadStartDate ==
    /\ pc = "L16"
    /\ start_date' = Strftime(now - timedelta(1))
    /\ pc' = "L20"
    /\ UNCHANGED <<clockVars, env, end_date, fc_start, fc_end, queries, response,
                   cost_data, notifyVars, message, error_message, result>>

DailyErrorCodes == {"ThrottlingException", "DataUnavailableException"}

\* the outcome of a billing API request that returned a response
Answered == [type |-> "ok"]

\* a billing API request with its TimePeriod, and how the service answered it
Query(api, start, end, outcome) ==
    [api |-> api, Start |-> start, End |-> end, outcome |-> outcome]

\* lines 20-30, and lines 58-60 when the call raises
QueryDailyCost ==
    /\ pc = "L20"
    /\ \/ \E r \in DailyResponses :
            /\ queries' = Append(queries, Query("get_cost_and_usage",
                                                start_date, end_date, Answered))
            /\ response' = r
            /\ pc' = "L36"
            /\ UNCHANGED <<call, message, retry_count, attempt, events,
                           error_message, result>>
       \/ \E code \in DailyErrorCodes :
            /\ queries' = Append(queries, Query("get_cost_and_usage",
                                                start_date, end_date, ClientError(code)))
            /\ HandlerCatch(ClientError(code),
                            Append(events, RaiseEvent("get_cost_data", ClientError(code))))
            /\ UNCHANGED response
    /\ UNCHANGED <<clockVars, env, end_date, start_date, fc_start, fc_end,
                   cost_data>>

\* line 36: 'Start': datetime.today().strftime('%Y-%m-%d')
ReadForecastStart ==
    /\ pc = "L36"
    /\ fc_start' = Strftime(now)
    /\ pc' = "L37"
    /\ UNCHANGED <<clockVars, env, end_date, start_date, fc_end, queries, response,
                   cost_data, notifyVars, message, error_message, result>>

\* line 37: 'End': (datetime.today() + timedelta(days=30)).strftime('%Y-%m-%d')
ReadForecastEnd ==
    /\ pc = "L37"
    /\ fc_end' = Strftime(now + timedelta(ForecastDays))
    /\ pc' = "L34"
    /\ UNCHANGED <<clockVars, env, end_date, start_date, fc_start, queries, response,
                   cost_data, notifyVars, message, error_message, result>>

\* exceptions get_cost_forecast may raise: ClientErrors and a non-ClientError
ForecastExceptions ==
    {ClientError(code) : code \in ForecastErrorCodes}
        \cup {[type |-> "EndpointConnectionError"]}

\* as ForecastRecoverable, with the error code never looked at
ForecastRecoverableAnyCode(e) == e.type = "ClientError"

\* as ForecastRecoverable, comparing against a code the service never sends
ForecastRecoverableWrongCode(e) ==
    e.type = "ClientError" /\ e.code = "DataUnavailable"

\* lines 42-43: the one exception that is replaced by the sentinel
ForecastRecoverable(e) ==
    e.type = "ClientError" /\ e.code = "DataUnavailableException"

\* lines 45-50
SentinelForecast == [Total |-> [Amount |-> NA, Unit |-> "USD"]]

\* lines 54-57
CostData(resp, forecast_response) ==
    [daily_cost |-> resp, forecast |-> forecast_response]

\* lines 33-57, and lines 58-60 when the exception is re-raised
QueryForecast ==
    /\ pc = "L34"
    /\ \/ \E f \in ForecastResponses :
            /\ queries' = Append(queries, Query("get_cost_forecast",
                                                fc_start, fc_end, Answered))
            /\ cost_data' = CostData(response, f)
            /\ pc' = "L153"
            /\ UNCHANGED <<call, message, retry_count, attempt, events,
                           error_message, result>>
       \/ \E e \in ForecastExceptions :
            /\ queries' = Append(queries, Query("get_cost_forecast",
                                                fc_start, fc_end, e))
            /\ IF ForecastRecoverable(e)
               THEN /\ cost_data' = CostData(response, SentinelForecast)
                    /\ pc' = "L153"
                    /\ UNCHANGED <<call, message, retry_count, attempt, events,
                                   error_message, result>>
               ELSE /\ HandlerCatch(e, Append(events, RaiseEvent("get_cost_data", e)))
                    /\ UNCHANGED cost_data
    /\ UNCHANGED <<clockVars, env, end_date, start_date, fc_start, fc_end,
                   response>>

(***************************************************************************)
(* lambda_handler, lines 153-156: format, then the primary notify_slack    *)
(***************************************************************************)
Format ==
    /\ pc = "L153"
    /\ LET r == format_cost_message(cost_data, Strftime(now))
       IN  IF r.ok
           THEN /\ EnterNotify("primary", r.value, events)
                /\ UNCHANGED <<error_message, result>>
           ELSE HandlerCatch(r.exc,
                             Append(events, RaiseEvent("format_cost_message", r.exc)))
    /\ UNCHANGED <<clockVars, env, fetchVars>>

(***************************************************************************)
(* notify_slack (lines 130-144)                                            *)
(***************************************************************************)
\* line 134: range(retry_count) still yields the value a
LoopContinues(a, rc) == a < rc

\* as IsLastAttempt, off by one
IsLastAttemptOffByOne(a, rc) == a = rc

\* line 140: attempt == retry_count - 1
IsLastAttempt(a, rc) == a = rc - 1

\* as NotifyEnv, without the lookup that raises when the address is absent
NotifyEnvNoLookup ==
    /\ pc = "N132"
    /\ IF LoopContinues(0, retry_count)
       THEN /\ pc' = "N136"
            /\ attempt' = 0
            /\ UNCHANGED <<call, message, retry_count, events, error_message, result>>
       ELSE NotifyReturns(None, events)
    /\ UNCHANGED <<clockVars, env, fetchVars>>

\* line 132, then the loop head of line 134
NotifyEnv ==
    /\ pc = "N132"
    /\ IF ~env
       THEN NotifyRaises([type |-> "KeyError", key |-> "SLACK_WEBHOOK_URL"], events)
       ELSE IF LoopContinues(0, retry_count)
            THEN /\ pc' = "N136"
                 /\ attempt' = 0
                 /\ UNCHANGED <<call, message, retry_count, events,
                                error_message, result>>
            ELSE NotifyReturns(None, events)      \* falls off the loop
    /\ UNCHANGED <<clockVars, env, fetchVars>>

\* lines 136-143: one requests.post and what follows from its outcome
NotifyPost ==
    /\ pc = "N136"
    /\ \E o \in PostOutcomes :
         LET evs == Append(events, PostEvent(call, message, o))
         IN  /\ IF ~AttemptFails(o)
                THEN NotifyReturns(o, evs)                        \* line 138
                ELSE IF IsLastAttempt(attempt, retry_count)
                     THEN NotifyRaises(AttemptException(o), evs)  \* line 142
                     ELSE /\ pc' = "N144"
                          /\ events' = evs
                          /\ UNCHANGED <<call, message, retry_count, attempt,
                                         error_message, result>>
    /\ UNCHANGED <<clockVars, env, fetchVars>>

\* line 144, then the loop head of line 134
NotifySleep ==
    /\ pc = "N144"
    /\ LET evs == Append(events, SleepEvent(call))
       IN  IF LoopContinues(attempt + 1, retry_count)
           THEN /\ pc' = "N136"
                /\ attempt' = attempt + 1
                /\ events' = evs
                /\ UNCHANGED <<call, message, retry_count, error_message, result>>
           ELSE NotifyReturns(None, evs)
    /\ UNCHANGED <<clockVars, env, fetchVars>>

(***************************************************************************)
(* Specification of one lambda_handler invocation                          *)
(***************************************************************************)
Init ==
    /\ pc = "L15"
    /\ now \in InitialTimes
    /\ ticks = 0
    /\ env \in BOOLEAN
    /\ end_date = None /\ start_date = None /\ fc_start = None /\ fc_end = None
    /\ queries = <<>>
    /\ response = None /\ cost_data = None /\ message = None
    /\ call = "none"
    /\ retry_count = 0 /\ attempt = 0
    /\ events = <<>>
    /\ error_message = None
    /\ result = None

Next ==
    \/ Tick
    \/ ReadEndDate \/ ReadStartDate \/ QueryDailyCost
    \/ ReadForecastStart \/ ReadForecastEnd \/ QueryForecast
    \/ Format
    \/ NotifyEnv \/ NotifyPost \/ NotifySleep

Spec == Init /\ [][Next]_vars

(***************************************************************************)
(* Specification of one direct notify_slack(message, retry_count) call     *)
(***************************************************************************)
RetryCounts == (0 - 1)..MaxRetry

InitNotify ==
    /\ pc = "N132"
    /\ now = timedelta(2)
    /\ ticks = 0
    /\ env \in BOOLEAN
    /\ end_date = None /\ start_date = None /\ fc_start = None /\ fc_end = None
    /\ queries = <<>>
    /\ response = None /\ cost_data = None
    /\ message = ErrorNotification(ErrorMessage([type |-> "IndexError"]))
    /\ call = "direct"
    /\ retry_count \in RetryCounts
    /\ attempt = 0
    /\ events = <<CallEvent(call, message, retry_count)>>
    /\ error_message = None
    /\ result = None

NextNotify == NotifyEnv \/ NotifyPost \/ NotifySleep

SpecNotify == InitNotify /\ [][NextNotify]_vars

(***************************************************************************)
(* Specification of format_cost_message on bounded billing responses       *)
(***************************************************************************)
ServiceNames ==
    <<"A", "B", "C", "D", "E", "F", "G", "H", "I", "J", "K", "L", "M", "N", "O", "P">>

\* amounts below, at and just above the 0.01 threshold, and two real ones
AmountStrings ==
    {Dec(0, <<0, 0, 4>>), Dec(0, <<0, 1>>), Dec(0, <<0, 1, 2>>),
     Dec(7, <<2, 5>>), Dec(12, <<5, 0>>)}

\* all tuples over S of length 0..n
RECURSIVE SeqsUpTo(_, _)
SeqsUpTo(S, n) ==
    IF n = 0 THEN {<<>>}
    ELSE LET shorter == SeqsUpTo(S, n - 1)
         IN  shorter \cup {Append(q, x) : q \in {r \in shorter : Len(r) = n - 1}, x \in S}

\* a response's groups: a free prefix, then k groups of $1.00, $2.00, ... $k.00
GroupsOf(prefix, k) ==
    [i \in 1..(Len(prefix) + k) |->
        Group(ServiceNames[i],
              IF i <= Len(prefix) THEN prefix[i] ELSE Dec(i - Len(prefix), <<0, 0>>))]

FormatInputs ==
    { CostData([ResultsByTime |-> <<[Groups |-> GroupsOf(prefix, k)]>>], f) :
        prefix \in SeqsUpTo(AmountStrings, MaxPrefix),
        k \in 0..MaxTail,
        f \in ForecastResponses \cup {SentinelForecast} }

InitFormat ==
    /\ pc = "L153"
    /\ now = timedelta(2)
    /\ ticks = 0
    /\ env = TRUE
    /\ end_date = None /\ start_date = None /\ fc_start = None /\ fc_end = None
    /\ queries = <<>>
    /\ response = None
    /\ cost_data \in FormatInputs
    /\ message = None
    /\ call = "none"
    /\ retry_count = 0 /\ attempt = 0
    /\ events = <<>>
    /\ error_message = None
    /\ result = None

NextFormat == Format

SpecFormat == InitFormat /\ [][NextFormat]_vars

(***************************************************************************)
(* Reading the trace                                                       *)
(***************************************************************************)
\* positions of the events of kind ev that belong to call c
Idx(ev, c) == {i \in 1..Len(events) : events[i].ev = ev /\ events[i].call = c}

\* positions of all events of kind ev
IdxAll(ev) == {i \in 1..Len(events) : events[i].ev = ev}

\* positions where get_cost_data, format_cost_message or the primary
\* notify_slack call raised into lambda_handler's try block
StageFailures ==
    {i \in IdxAll("raise") :
        events[i].call \in {"get_cost_data", "format_cost_message", "primary"}}

\* every step of the handler itself (the clock aside)
HandlerStep ==
    \/ ReadEndDate \/ ReadStartDate \/ QueryDailyCost
    \/ ReadForecastStart \/ ReadForecastEnd \/ QueryForecast
    \/ Format
    \/ NotifyEnv \/ NotifyPost \/ NotifySleep

(***************************************************************************)
(* Claims                                                                  *)
(***************************************************************************)

\* C1: whatever the billing queries, the formatter and the webhook POSTs do,
\* lambda_handler is never stuck short of returning (no exception escapes: in
\* every state that is not the return, a step of the handler is possible), the
\* returned statusCode is 200 exactly when get_cost_data returned, the
\* formatter returned (the primary notify_slack call was made) and that call
\* returned, it is 500 otherwise, and on the 200 path no error notification is
\* sent.
C1_StatusCode ==
    /\ pc # "done" => ENABLED HandlerStep
    /\ pc = "done" =>
        /\ result.statusCode \in {200, 500}
        /\ result.statusCode = 200 <=>
              /\ cost_data # None
              /\ Idx("call", "primary") # {}
              /\ Idx("return", "primary") # {}
        /\ result.statusCode = 200 =>
              /\ result.body = JsonDumps("Cost notification sent successfully!")
              /\ Idx("call", "secondary") = {}
              /\ \A i \in IdxAll("POST") : events[i].payload.kind # "error"

\* C1 witness: a success that needed a retry
C1_Witness ==
    /\ pc = "done"
    /\ result.statusCode = 200
    /\ Idx("sleep", "primary") # {}

\* C2: a failure of Fetch, Format or the primary Notify is followed at once by
\* exactly one secondary notify_slack call carrying the error text; the handler
\* returns only after that call ended, and however it ended the result is
\* statusCode 500 with the original error message as body.
C2_SecondaryNotification ==
    /\ Cardinality(StageFailures) <= 1
    /\ Cardinality(Idx("call", "secondary")) <= 1
    /\ Idx("call", "secondary") # {} => StageFailures # {}
    /\ \A i \in StageFailures :
        /\ i < Len(events)
        /\ events[i + 1].ev = "call"
        /\ events[i + 1].call = "secondary"
        /\ events[i + 1].payload.kind = "error"
        /\ events[i + 1].payload.text = ErrorMessage(events[i].exc)
        /\ pc = "done" =>
            /\ events[Len(events)].call = "secondary"
            /\ events[Len(events)].ev \in {"return", "raise"}
            /\ result.statusCode = 500
            /\ result.body = JsonDumps(ErrorMessage(events[i].exc))

\* C2 witness: the primary call failed and the error notification ran out of
\* retries as well
C2_Witness ==
    /\ pc = "done"
    /\ \E i \in Idx("raise", "primary") : events[i].exc.type = "HTTPError"
    /\ \E i \in Idx("raise", "secondary") : events[i].exc.type = "ConnectionError"

\* C3: with the address present and retry_count >= 1, the events of one
\* notify_slack call are POST (sleep POST)*: at most retry_count POSTs; a POST
\* that did not raise is the last event and is what the call returns; every
\* sleep follows a raising attempt that is not the retry_count-th; after the
\* retry_count-th raising attempt the call raises that attempt's exception
\* with no sleep in between.  ("Raising" is the attempt's outcome as
\* notify_slack sees it, lines 136-139.)
C3_RetrySequence ==
    LET n    == Len(events)
        term == pc \in {"returned", "raised"}
        m    == IF term THEN n - 1 ELSE n
    IN  (env /\ retry_count >= 1) =>
        /\ term <=> events[n].ev \in {"return", "raise"}
        /\ \A i \in 2..m : events[i].ev = (IF i % 2 = 0 THEN "POST" ELSE "sleep")
        /\ Cardinality(IdxAll("POST")) <= retry_count
        /\ \A i \in 2..m :
             /\ (events[i].ev = "POST" /\ i < m) => AttemptFails(events[i].outcome)
             /\ events[i].ev = "sleep" =>
                  /\ AttemptFails(events[i - 1].outcome)
                  /\ (i - 1) \div 2 < retry_count
        /\ pc = "N144" => events[m].ev = "POST" /\ AttemptFails(events[m].outcome)
        /\ pc = "returned" =>
             /\ m >= 2
             /\ events[m].ev = "POST"
             /\ ~AttemptFails(events[m].outcome)
             /\ events[n] = ReturnEvent("direct", events[m].outcome)
        /\ pc = "raised" =>
             /\ events[m].ev = "POST"
             /\ AttemptFails(events[m].outcome)
             /\ Cardinality(IdxAll("POST")) = retry_count
             /\ Cardinality(IdxAll("sleep")) = retry_count - 1
             /\ events[n] = RaiseEvent("direct", AttemptException(events[m].outcome))

\* C3 witness: two raising attempts, two sleeps, the third POST is returned
C3_Witness ==
    /\ env /\ retry_count >= 1
    /\ pc = "returned"
    /\ Cardinality(IdxAll("sleep")) = 2
    /\ Cardinality(IdxAll("POST")) = 3

\* C4: notify_slack never returns on a response whose status is not 2xx
\* (1xx and 3xx included): no POST answered with such a status is followed by
\* the call's return.
C4_Non2xxNeverReturned ==
    \A i \in IdxAll("POST") :
        (/\ events[i].outcome.kind = "response"
         /\ events[i].outcome.status \notin 200..299)
            => ~(i < Len(events) /\ events[i + 1].ev = "return")

\* C5: with SLACK_WEBHOOK_URL absent every notify_slack call raises KeyError
\* as its first step, so an invocation makes no POST and no sleep at all,
\* and returns statusCode 500.
C5_NoWebhookAddress ==
    ~env =>
        /\ IdxAll("POST") = {}
        /\ IdxAll("sleep") = {}
        /\ \A i \in IdxAll("call") :
             IF i = Len(events) THEN pc = "N132"
             ELSE events[i + 1] =
                    RaiseEvent(events[i].call,
                               [type |-> "KeyError", key |-> "SLACK_WEBHOOK_URL"])
        /\ pc = "done" => result.statusCode = 500

\* C5 witness: fetch and format went through, both notify_slack calls raised
C5_Witness ==
    /\ ~env
    /\ pc = "done"
    /\ Idx("raise", "primary") # {}
    /\ Idx("raise", "secondary") # {}

\* the daily-cost query was answered and the forecast query raised the
\* ClientError with code DataUnavailableException
ForecastUnavailable ==
    /\ Len(queries) = 2
    /\ queries[1].outcome = Answered
    /\ queries[2].outcome = ClientError("DataUnavailableException")

\* the shape of claim C6 for a given forecast text: get_cost_data returns with
\* the sentinel; once the formatter ran on a response holding its time bucket,
\* the primary notify_slack call carries the report whose forecast field is
\* that text; and when that call returns the handler returns statusCode 200.
ForecastUnavailableRenders(text) ==
    ForecastUnavailable =>
        /\ cost_data # None
        /\ cost_data.forecast.Total.Amount = NA
        /\ Idx("raise", "get_cost_data") = {}
        /\ (pc # "L153" /\ response.ResultsByTime # <<>>) =>
             /\ Idx("call", "primary") # {}
             /\ \A i \in Idx("call", "primary") :
                  /\ events[i].payload.kind = "report"
                  /\ events[i].payload.forecast = [text |-> text]
        /\ (pc = "done" /\ Idx("return", "primary") # {}) => result.statusCode = 200

DailyFailed == Len(queries) >= 1 /\ queries[1].outcome # Answered

ForecastFatal ==
    /\ Len(queries) = 2
    /\ queries[2].outcome # Answered
    /\ queries[2].outcome # ClientError("DataUnavailableException")

\* C7: when the daily-cost query fails, or the forecast query fails with
\* anything but "data unavailable", get_cost_data raises, no cost_data and no
\* report exist, only the error notification is ever POSTed, a failed daily
\* query is the only query issued, and the handler returns statusCode 500.
C7_FetchFailsWhole ==
    (DailyFailed \/ ForecastFatal) =>
        /\ cost_data = None
        /\ Idx("raise", "get_cost_data") # {}
        /\ Idx("call", "primary") = {}
        /\ \A i \in IdxAll("POST") : events[i].payload.kind = "error"
        /\ DailyFailed => Len(queries) = 1
        /\ pc = "done" => result.statusCode = 500

\* C7 witness: a throttled forecast query; the error notification was POSTed
C7_Witness ==
    /\ ForecastFatal
    /\ queries[2].outcome = ClientError("ThrottlingException")
    /\ pc = "done"
    /\ IdxAll("POST") # {}

\* the groups of the response the formatter was given
InputGroups == cost_data.daily_cost.ResultsByTime[1].Groups

\* positions of the groups whose amount exceeds 0.01
AboveThreshold == {i \in 1..Len(InputGroups) : float(InputGroups[i].Amount) > 10}

RECURSIVE SumOver(_)
SumOver(I) ==
    IF I = {} THEN 0
    ELSE LET i == CHOOSE j \in I : TRUE
         IN  float(InputGroups[i].Amount) + SumOver(I \ {i})

\* the formatter has run on cost_data and produced the report in message
Formatted == pc = "N132" /\ call = "primary"

C9_OneDayWindow ==
    \A i \in 1..Len(queries) :
        /\ queries[i].api = "get_cost_and_usage" =>
              queries[i].Start.ymd = queries[i].End.ymd - 1
        /\ queries[i].api = "get_cost_forecast" =>
              queries[i].Start = queries[1].End

\* C10: with the address present, whatever retry_count is, a notify_slack
\* call that returns has made a POST that was answered without an error status.
C10_ReturnsOnlyAfterDelivery ==
    (env /\ pc = "returned") =>
        \E i \in IdxAll("POST") :
            /\ events[i].outcome.kind = "response"
            /\ events[i].outcome.status < 400

====
